---- MODULE Spec2Model ----
(***************************************************************************)
(* HARK.econforgeinterp.LinearFast: a multilinear interpolator that wraps  *)
(* the econforge `interpolation.splines` evaluators (eval_linear,          *)
(* eval_spline).  The model follows src/HARK/econforgeinterp.py method by  *)
(* method.  Python values are records carrying a `kind`; numpy arrays are  *)
(* a shape plus their elements in row-major order.  The numbers the        *)
(* external evaluators compute are kept as terms that record every         *)
(* argument the evaluator was given, so that two results are equal exactly *)
(* when the code handed the evaluator the same request.                    *)
(***************************************************************************)
EXTENDS Integers, Sequences, FiniteSets, TLC

VARIABLES inst, built, ctor, last, seen, later, other, dist

vars == <<inst, built, ctor, last, seen, later, other, dist>>

(***************************************************************************)
(* Bounds and input sets                                                   *)
(***************************************************************************)
\* largest number of independent variables (grids) of an interpolator
MaxDim == 2

\* the one-dimensional grids an interpolator is built from (sorted, length
\* >= 2): Axis(n) is 0, 1, ..., n
Axis(n) == [k \in 1..(n + 1) |-> k - 1]

\* the i-th grid of an interpolator is Axis(i + o), o one of these
Offsets == { 0, 1 }

\* slopes of the sampled functions
Slopes == { 1, 10 }

\* what a caller passes as extrap_mode (Omitted: the argument is left out)
Omitted == "<omitted>"
ModeArgs == { "linear", "nearest", "constant", "bogus", Omitted }

\* the forms of a coordinate argument with the first coordinate of the
\* batch (0: inside the grids, 9: outside every grid): numpy arrays of shape
\* (), (2,) and (1,2), a Python float, and a Python list of two floats
Forms == { <<"ndarray", <<>>, 0>>, <<"ndarray", <<2>>, 0>>,
           <<"ndarray", <<2>>, 9>>, <<"ndarray", <<1, 2>>, 0>>,
           <<"float", <<>>, 9>>, <<"list", <<2>>, 0>> }

(***************************************************************************)
(* Python and numpy values                                                 *)
(***************************************************************************)
None == [kind |-> "None"]

RECURSIVE Prod(_)
Prod(shape) == IF shape = <<>> THEN 1 ELSE Head(shape) * Prod(Tail(shape))

ndarray(shape, data) == [kind |-> "ndarray", shape |-> shape, data |-> data]

\* np.asarray(x): an array is returned as it is, a float becomes a
\* zero-dimensional array, a list of n floats an array of shape (n,)
asarray(x) ==
    CASE x.kind = "ndarray" -> x
      [] x.kind = "float"   -> ndarray(<<>>, <<x.val>>)
      [] x.kind = "list"    -> ndarray(<<Len(x.items)>>, x.items)

\* x.flatten(): the elements in row-major order
flatten(a) == a.data

\* np.column_stack(cols): row n holds the n-th element of every column
column_stack(cols) ==
    [n \in 1..Len(cols[1]) |-> [i \in 1..Len(cols) |-> cols[i][n]]]

\* only numpy arrays have a .shape attribute
HasShape(x) == x.kind = "ndarray"

\* np.reshape(f, shape) is defined when the sizes agree
CanReshape(f, shape) == Len(f) = Prod(shape)
reshape(f, shape) == ndarray(shape, f)

\* derivs[:, j] of an N x k matrix (j counted from 1)
Column(m, j) == [n \in 1..Len(m) |-> m[n][j]]

(***************************************************************************)
(* The external evaluators                                                 *)
(***************************************************************************)
\* CGrid(*grids): the tensor grid descriptor, one axis per argument
CGrid(grids) == [kind |-> "CGrid", axes |-> grids]

\* the call a method makes to an evaluator of interpolation.splines
CallLinear(G, C, points, opt) ==
    [fn |-> "eval_linear", grid |-> G, C |-> C, points |-> points,
     order |-> 0, diff |-> <<>>, extrap |-> opt]
CallSpline(G, C, points, order, diff, mode) ==
    [fn |-> "eval_spline", grid |-> G, C |-> C, points |-> points,
     order |-> order, diff |-> diff, extrap |-> mode]

\* eval_linear(grid, C, points, extrap_options): one number per point
eval_linear(G, C, points, opt) ==
    [n \in 1..Len(points) |->
        [ev |-> "eval_linear", grid |-> G, C |-> C, pt |-> points[n],
         order |-> 0, diff |-> <<>>, extrap |-> opt]]

\* eval_spline(grid, C, points, out=None, order, diff, extrap_mode): an
\* N x k matrix, column j being derivative diff[j] at every point
eval_spline(G, C, points, order, diff, mode) ==
    [n \in 1..Len(points) |->
        [j \in 1..Len(diff) |->
            [ev |-> "eval_spline", grid |-> G, C |-> C, pt |-> points[n],
             order |-> order, diff |-> diff[j], extrap |-> mode]]]

\* The values tensor fits the grids: one axis per grid, of the grid's length.
\* The evaluators are specified only for such instances.
WellFormed(self) ==
    /\ Len(self.f_val.shape) = Len(self.grid_list)
    /\ \A i \in 1..Len(self.grid_list) :
          self.f_val.shape[i] = Len(self.grid_list[i])

\* What the evaluator does with an instance: it computes ("ok"); on a values
\* tensor that does not fit the grids it either fails or hands back numbers
\* of no specified shape or meaning.
BackendBehaviours(self) ==
    IF WellFormed(self) THEN {"ok"} ELSE {"fails", "garbage"}

(***************************************************************************)
(* LinearFast                                                              *)
(***************************************************************************)
xto_LINEAR == "xto.LINEAR"
xto_NEAREST == "xto.NEAREST"
xto_CONSTANT == "xto.CONSTANT"

extrap_opts ==
    [m \in {"linear", "nearest", "constant"} |->
        CASE m = "linear"   -> xto_LINEAR
          [] m = "nearest"  -> xto_NEAREST
          [] m = "constant" -> xto_CONSTANT]

\* distance_criteria naming the extrapolation mode as well
criteria_with_mode == <<"f_val", "grid_list", "extrap_mode">>

\* LinearFast.distance_criteria
distance_criteria == <<"f_val", "grid_list">>

\* what a method hands back: the instance after the call, whether it
\* returned or raised, the value or the error, the evaluator calls it made,
\* and what went into and came out of _derivs
Returned(self, value, calls, din, dout) ==
    [self |-> self, outcome |-> "return", value |-> value, err |-> "",
     calls |-> calls, deriv_in |-> din, deriv_out |-> dout]
Raised(self, err, calls, din) ==
    [self |-> self, outcome |-> "raise", value |-> None, err |-> err,
     calls |-> calls, deriv_in |-> din, deriv_out |-> <<>>]
Unspecified == [kind |-> "unspecified"]

\* __init__ with the extrapolation table lookup replaced by a lookup with a
\* default (extrap_opts.get(mode, xto.LINEAR)): nothing is ever raised
init_no_check(f_val, grids, extrap_mode) ==
    LET opt == IF extrap_mode \in DOMAIN extrap_opts
               THEN extrap_opts[extrap_mode] ELSE xto_LINEAR
    IN  Returned([kind |-> "LinearFast", dim |-> Len(grids), f_val |-> f_val,
                  grid_list |-> grids, Grid |-> CGrid(grids),
                  extrap_mode |-> extrap_mode, extrap_options |-> opt],
                 None, <<>>, <<>>, <<>>)

\* __init__ taking the dimension from the values tensor (f_val.ndim)
init_dim_from_values(f_val, grids, extrap_mode) ==
    IF extrap_mode \in DOMAIN extrap_opts
    THEN Returned([kind |-> "LinearFast", dim |-> Len(f_val.shape),
                   f_val |-> f_val, grid_list |-> grids, Grid |-> CGrid(grids),
                   extrap_mode |-> extrap_mode,
                   extrap_options |-> extrap_opts[extrap_mode]],
                  None, <<>>, <<>>, <<>>)
    ELSE Raised(None, "KeyError", <<>>, <<>>)

\* LinearFast.__init__(self, f_val, grids, extrap_mode)
__init__(f_val, grids, extrap_mode) ==
    IF extrap_mode \in DOMAIN extrap_opts
    THEN Returned([kind |-> "LinearFast", dim |-> Len(grids), f_val |-> f_val,
                   grid_list |-> grids, Grid |-> CGrid(grids),
                   extrap_mode |-> extrap_mode,
                   extrap_options |-> extrap_opts[extrap_mode]],
                  None, <<>>, <<>>, <<>>)
    ELSE Raised(None, "KeyError", <<>>, <<>>)

\* LinearFast(f_val, grids[, extrap_mode]): extrap_mode defaults to "linear"
new(f_val, grids, modeArg) ==
    __init__(f_val, grids, IF modeArg = Omitted THEN "linear" ELSE modeArg)

\* LinearFast.__call__(self, *args); be: what the evaluator does
__call__(self, args, be) ==
    LET array_args == [i \in 1..Len(args) |-> asarray(args[i])]
        points == column_stack([i \in 1..Len(args) |-> flatten(array_args[i])])
        calls == <<CallLinear(self.Grid, self.f_val, points, self.extrap_options)>>
        f == eval_linear(self.Grid, self.f_val, points, self.extrap_options)
    IN  CASE be = "fails"   -> Raised(self, "BackendError", calls, <<>>)
          [] be = "garbage" -> Returned(self, Unspecified, calls, <<>>, <<>>)
          [] OTHER ->
               IF CanReshape(f, array_args[1].shape)
               THEN Returned(self, reshape(f, array_args[1].shape), calls, <<>>, <<>>)
               ELSE Raised(self, "ValueError", calls, <<>>)

\* the derivative requests of the gradient: row i asks for order 1 along
\* axis i and order 0 along the others
deriv_tup(d) == [i \in 1..d |-> [j \in 1..d |-> IF j = i THEN 1 ELSE 0]]

\* ((0, ..., 0),): the request for the function value
eval_tup(d) == << [i \in 1..d |-> 0] >>

\* _derivs always asking the spline evaluator for linear extrapolation
derivs_linear_mode(self, deriv_tuple, args, be) ==
    LET array_args == [i \in 1..Len(args) |-> asarray(args[i])]
        points == column_stack([i \in 1..Len(args) |-> flatten(array_args[i])])
        calls == <<CallSpline(self.Grid, self.f_val, points, 1, deriv_tuple, "linear")>>
        derivs == eval_spline(self.Grid, self.f_val, points, 1, deriv_tuple, "linear")
        out == [j \in 1..self.dim |-> reshape(Column(derivs, j), args[1].shape)]
    IN  CASE be = "fails"   -> Raised(self, "BackendError", calls, deriv_tuple)
          [] be = "garbage" -> Returned(self, Unspecified, calls, deriv_tuple, <<>>)
          [] OTHER ->
               IF ~HasShape(args[1])
               THEN Raised(self, "AttributeError", calls, deriv_tuple)
               ELSE Returned(self, [kind |-> "list", items |-> out], calls,
                             deriv_tuple, out)

\* _derivs storing the number of requests in self.dim before reshaping
derivs_sets_dim(self, deriv_tuple, args, be) ==
    LET array_args == [i \in 1..Len(args) |-> asarray(args[i])]
        points == column_stack([i \in 1..Len(args) |-> flatten(array_args[i])])
        calls == <<CallSpline(self.Grid, self.f_val, points, 1, deriv_tuple,
                              self.extrap_mode)>>
        derivs == eval_spline(self.Grid, self.f_val, points, 1, deriv_tuple,
                              self.extrap_mode)
        self2 == [self EXCEPT !.dim = Len(deriv_tuple)]
        out == [j \in 1..self2.dim |-> reshape(Column(derivs, j), args[1].shape)]
    IN  CASE be = "fails"   -> Raised(self, "BackendError", calls, deriv_tuple)
          [] be = "garbage" -> Returned(self, Unspecified, calls, deriv_tuple, <<>>)
          [] OTHER ->
               IF ~HasShape(args[1])
               THEN Raised(self2, "AttributeError", calls, deriv_tuple)
               ELSE Returned(self2, [kind |-> "list", items |-> out], calls,
                             deriv_tuple, out)

\* LinearFast._derivs(self, deriv_tuple, *args); be: what the evaluator does.
\* diff=str(deriv_tuple) is read back by the evaluator as the same tuple.
\* The outputs are the first self.dim columns of the evaluator's matrix, each
\* reshaped to args[0].shape (the argument as passed, not the converted one).
_derivs(self, deriv_tuple, args, be) ==
    LET array_args == [i \in 1..Len(args) |-> asarray(args[i])]
        points == column_stack([i \in 1..Len(args) |-> flatten(array_args[i])])
        calls == <<CallSpline(self.Grid, self.f_val, points, 1, deriv_tuple,
                              self.extrap_mode)>>
        derivs == eval_spline(self.Grid, self.f_val, points, 1, deriv_tuple,
                              self.extrap_mode)
        out == [j \in 1..self.dim |-> reshape(Column(derivs, j), args[1].shape)]
    IN  CASE be = "fails"   -> Raised(self, "BackendError", calls, deriv_tuple)
          [] be = "garbage" -> Returned(self, Unspecified, calls, deriv_tuple, <<>>)
          [] OTHER ->
               IF ~HasShape(args[1])
               THEN Raised(self, "AttributeError", calls, deriv_tuple)
               ELSE IF self.dim > Len(deriv_tuple)
               THEN Raised(self, "IndexError", calls, deriv_tuple)
               ELSE IF ~CanReshape(Column(derivs, 1), args[1].shape)
               THEN Raised(self, "ValueError", calls, deriv_tuple)
               ELSE Returned(self, [kind |-> "list", items |-> out], calls,
                             deriv_tuple, out)

\* LinearFast.gradient(self, *args)
gradient(self, args, be) == _derivs(self, deriv_tup(self.dim), args, be)

\* LinearFast._eval_and_grad(self, *args): (results[0], results[1:])
_eval_and_grad(self, args, be) ==
    LET r == _derivs(self, eval_tup(self.dim) \o deriv_tup(self.dim), args, be)
        results == r.value.items
    IN  IF r.outcome = "raise" \/ r.value = Unspecified
        THEN r
        ELSE IF results = <<>>
        THEN Raised(r.self, "IndexError", r.calls, r.deriv_in)
        ELSE [r EXCEPT !.value =
                 [kind |-> "tuple",
                  items |-> << results[1],
                               [kind |-> "list", items |-> Tail(results)] >>]]

\* MetricObject.distance is zero: the attributes named by distance_criteria
\* are equal in both objects
Equivalent(a, b) == \A k \in 1..Len(distance_criteria) :
                       a[distance_criteria[k]] = b[distance_criteria[k]]

(***************************************************************************)
(* Inputs                                                                  *)
(***************************************************************************)
Range(s) == { s[i] : i \in 1..Len(s) }

\* grids: one to MaxDim axes of different lengths
GridLists == { [i \in 1..d |-> Axis(i + o)] : d \in 1..MaxDim, o \in Offsets }

\* the shape the values tensor must have for the grids
GridShape(grids) == [i \in 1..Len(grids) |-> Len(grids[i])]

\* values tensors a caller may pass for the grids: the samples of a linear
\* function on the grid, or (nothing checks it) a tensor with one axis more
ValueTensors(grids) ==
    { ndarray(sh, [n \in 1..Prod(sh) |-> s * (n - 1)]) :
        sh \in { GridShape(grids), GridShape(grids) \o <<2>> }, s \in Slopes }

\* the i-th coordinate argument of a batch in the given form
MkArg(form, i) ==
    LET N == Prod(form[2])
        xs == [n \in 1..N |-> form[3] + (n - 1) + (i - 1)]
    IN  CASE form[1] = "ndarray" -> ndarray(form[2], xs)
          [] form[1] = "float"   -> [kind |-> "float", val |-> xs[1]]
          [] form[1] = "list"    -> [kind |-> "list", items |-> xs]

\* one coordinate argument per dimension, all of the same form and shape
QueryArgs(d) == { [i \in 1..d |-> MkArg(form, i)] : form \in Forms }

(***************************************************************************)
(* State machine                                                           *)
(***************************************************************************)
Record(op, args, r) ==
    [op |-> op, args |-> args, outcome |-> r.outcome, value |-> r.value,
     err |-> r.err, calls |-> r.calls, deriv_in |-> r.deriv_in,
     deriv_out |-> r.deriv_out]

NoOp == [op |-> "none", args |-> <<>>, outcome |-> "", value |-> None,
         err |-> "", calls |-> <<>>, deriv_in |-> <<>>, deriv_out |-> <<>>]

Init ==
    /\ inst = None
    /\ built = None
    /\ ctor = None
    /\ last = NoOp
    /\ seen = NoOp
    /\ later = FALSE
    /\ other = None
    /\ dist = None

\* x = LinearFast(f_val, grids, mode)
Construct ==
    /\ inst = None
    /\ \E grids \in GridLists : \E f_val \in ValueTensors(grids) :
       \E modeArg \in ModeArgs :
          LET r == new(f_val, grids, modeArg)
              a == [kind |-> "ctor_args", f_val |-> f_val, grids |-> grids,
                    mode |-> modeArg]
          IN  /\ inst' = r.self
              /\ built' = r.self
              /\ ctor' = IF r.outcome = "return"
                         THEN [kind |-> "ctor_args", f_val |-> f_val,
                               grids |-> grids]
                         ELSE None
              /\ last' = Record("new", a, r)
              /\ seen' = NoOp
              /\ later' = FALSE
    /\ dist' = None
    /\ UNCHANGED other

\* the first query on an instance is remembered
Remember(rec) == IF seen.op = "none" THEN rec ELSE seen

\* x(*args)
Evaluate ==
    /\ inst # None
    /\ \E args \in QueryArgs(inst.dim) : \E be \in BackendBehaviours(inst) :
          LET r == __call__(inst, args, be)
          IN  /\ inst' = r.self
              /\ last' = Record("__call__", args, r)
              /\ seen' = Remember(Record("__call__", args, r))
              /\ later' = (seen.op # "none")
    /\ UNCHANGED <<built, ctor, other, dist>>

\* the instance is dropped
Release ==
    /\ inst # None
    /\ inst' = None /\ built' = None /\ ctor' = None
    /\ last' = NoOp /\ seen' = NoOp /\ later' = FALSE
    /\ dist' = None
    /\ UNCHANGED other

\* x.gradient(*args)
Gradient ==
    /\ inst # None
    /\ \E args \in QueryArgs(inst.dim) : \E be \in BackendBehaviours(inst) :
          LET r == gradient(inst, args, be)
          IN  /\ inst' = r.self
              /\ last' = Record("gradient", args, r)
              /\ seen' = Remember(Record("gradient", args, r))
              /\ later' = (seen.op # "none")
    /\ UNCHANGED <<built, ctor, other, dist>>

\* x._eval_and_grad(*args)
EvalAndGrad ==
    /\ inst # None
    /\ \E args \in QueryArgs(inst.dim) : \E be \in BackendBehaviours(inst) :
          LET r == _eval_and_grad(inst, args, be)
          IN  /\ inst' = r.self
              /\ last' = Record("_eval_and_grad", args, r)
              /\ seen' = Remember(Record("_eval_and_grad", args, r))
              /\ later' = (seen.op # "none")
    /\ UNCHANGED <<built, ctor, other, dist>>

Next == Construct \/ Evaluate \/ Gradient \/ EvalAndGrad \/ Release

Spec == Init /\ [][Next]_vars

(***************************************************************************)
(* Two instances and their comparison                                      *)
(***************************************************************************)
\* y = LinearFast(f_val, grids, mode)
ConstructOther ==
    /\ other = None
    /\ \E grids \in GridLists : \E f_val \in ValueTensors(grids) :
       \E modeArg \in ModeArgs :
          other' = new(f_val, grids, modeArg).self
    /\ dist' = None
    /\ UNCHANGED <<inst, built, ctor, last, seen, later>>

\* x.distance(y) == 0
Compare ==
    /\ inst # None /\ other # None
    /\ dist' = [kind |-> "bool", val |-> Equivalent(inst, other)]
    /\ UNCHANGED <<inst, built, ctor, last, seen, later, other>>

ReleaseOther ==
    /\ other # None
    /\ other' = None /\ dist' = None
    /\ UNCHANGED <<inst, built, ctor, last, seen, later>>

NextPair == Construct \/ ConstructOther \/ Compare \/ Release \/ ReleaseOther

SpecPair == Init /\ [][NextPair]_vars

(***************************************************************************)
(* Properties                                                              *)
(***************************************************************************)
Recognized == {"linear", "nearest", "constant"}
Queries == {"__call__", "gradient", "_eval_and_grad"}

\* the last operation was a query on a well-formed instance with numpy
\* array arguments
ArrayQuery(op) ==
    /\ last.op = op
    /\ inst # None
    /\ WellFormed(inst)
    /\ \A i \in 1..Len(last.args) : last.args[i].kind = "ndarray"

\* the shape S of the coordinate arguments of the last query
QueryShape == asarray(last.args[1]).shape

\* the number a result element stands for: the interpolant of (grid, C)
\* under a named extrapolation policy, differentiated as diff says, at pt.
\* eval_linear computes the order-0 request under the policy its option names.
Denotes(t) ==
    IF t.ev = "eval_linear"
    THEN [grid |-> t.grid, C |-> t.C, pt |-> t.pt,
          diff |-> [i \in 1..Len(t.pt) |-> 0],
          policy |-> CHOOSE m \in DOMAIN extrap_opts : extrap_opts[m] = t.extrap]
    ELSE [grid |-> t.grid, C |-> t.C, pt |-> t.pt, diff |-> t.diff,
          policy |-> t.extrap]

SameNumbers(a, b) ==
    /\ a.kind = "ndarray" /\ b.kind = "ndarray"
    /\ a.shape = b.shape
    /\ Len(a.data) = Len(b.data)
    /\ \A n \in 1..Len(a.data) : Denotes(a.data[n]) = Denotes(b.data[n])

\* C1: construction with a mode string outside {"linear", "nearest",
\* "constant"} raises (KeyError) and yields no instance, so every query runs
\* on an instance with a recognized mode; construction with a recognized
\* mode, or with the mode left out (then "linear"), succeeds.
C1_ModeValidated ==
    /\ inst # None => inst.extrap_mode \in Recognized
    /\ last.op = "new" =>
          IF last.args.mode \in Recognized \cup {Omitted}
          THEN /\ last.outcome = "return"
               /\ inst # None
               /\ inst.extrap_mode =
                     (IF last.args.mode = Omitted THEN "linear" ELSE last.args.mode)
          ELSE /\ last.outcome = "raise"
               /\ last.err = "KeyError"
               /\ inst = None
    /\ last.op \in Queries => inst # None /\ inst.extrap_mode \in Recognized

C1_Witness ==
    /\ last.op = "new"
    /\ last.args.mode = "bogus"
    /\ last.outcome = "raise"
    /\ inst = None

\* C2: _eval_and_grad on D coordinate arrays of shape S returns a pair
\* (value, derivatives) where derivatives holds exactly D arrays, the i-th
\* the partial derivative along axis i, and every array has shape S.
C2_EvalAndGradShape ==
    ArrayQuery("_eval_and_grad") =>
        /\ last.outcome = "return"
        /\ last.value.kind = "tuple"
        /\ last.value.items[1].shape = QueryShape
        /\ Len(last.value.items[2].items) = inst.dim
        /\ \A j \in 1..Len(last.value.items[2].items) :
              LET d == last.value.items[2].items[j]
              IN  /\ d.shape = QueryShape
                  /\ \A n \in 1..Len(d.data) : d.data[n].diff = deriv_tup(inst.dim)[j]

\* C3: the value half of _eval_and_grad's result is the number a separate
\* __call__ on the same arguments returns, and its derivative half equals
\* the result of a separate gradient call (same length, order and entries).
C3_EvalAndGradConsistent ==
    ArrayQuery("_eval_and_grad") =>
        /\ last.outcome = "return"
        /\ last.value.kind = "tuple"
        /\ SameNumbers(last.value.items[1], __call__(inst, last.args, "ok").value)
        /\ last.value.items[2] = gradient(inst, last.args, "ok").value

\* C4: for D coordinate arguments of one shape S (zero-dimensional and
\* scalar inputs included), __call__ returns one array of shape S and
\* gradient returns exactly D arrays of shape S.
C4_ShapePreserved ==
    (last.op \in {"__call__", "gradient"} /\ inst # None /\ WellFormed(inst)) =>
        /\ last.outcome = "return"
        /\ last.op = "__call__" => last.value.shape = QueryShape
        /\ last.op = "gradient" =>
              /\ Len(last.value.items) = inst.dim
              /\ \A j \in 1..Len(last.value.items) :
                    last.value.items[j].shape = QueryShape

\* C6: two interpolators are equivalent (distance zero) exactly when their
\* value tensors and their grid lists are equal; the extrapolation mode
\* plays no part.
C6_EquivalenceKey ==
    dist.kind = "bool" =>
        dist.val = (inst.f_val = other.f_val /\ inst.grid_list = other.grid_list)

C6_Witness ==
    /\ dist.kind = "bool"
    /\ dist.val
    /\ inst.extrap_mode # other.extrap_mode

\* C7: queries, returning or raising, leave every attribute of the instance
\* as construction set it, and a query repeated with the same arguments on
\* a well-formed instance gives the same result as the first time.
C7_QueriesDoNotMutate ==
    /\ inst # None => inst = built
    /\ (/\ inst # None
        /\ WellFormed(inst)
        /\ later
        /\ last.op = seen.op
        /\ last.args = seen.args) =>
            /\ last.outcome = seen.outcome
            /\ last.value = seen.value
            /\ last.err = seen.err

C7_Witness ==
    /\ inst # None
    /\ WellFormed(inst)
    /\ later
    /\ last.op = "_eval_and_grad"
    /\ seen.op = "_eval_and_grad"
    /\ last.args = seen.args
    /\ last.outcome = "return"

\* C8 (as claimed): a constructed interpolator has dimension ==
\* len(grid_list) == number of axes of the values tensor.
C8_DimensionInvariant ==
    inst # None =>
        /\ inst.dim = Len(inst.grid_list)
        /\ inst.dim = Len(inst.f_val.shape)

\* C8 (amended): a constructed interpolator has dimension == len(grid_list);
\* grids and values are stored as passed, unchecked, so the dimension is the
\* number of axes of the values tensor when the caller passed one axis per grid.
C8_DimensionIsGridCount ==
    inst # None =>
        /\ inst.dim = Len(inst.grid_list)
        /\ inst.grid_list = ctor.grids
        /\ inst.f_val = ctor.f_val
        /\ inst.Grid = CGrid(ctor.grids)
        /\ Len(ctor.f_val.shape) = Len(ctor.grids) => inst.dim = Len(inst.f_val.shape)

C8_Witness ==
    /\ inst # None
    /\ Len(inst.f_val.shape) # Len(inst.grid_list)
    /\ inst.dim = Len(inst.grid_list)

\* C9: _derivs returns one array per requested derivative spec, in the
\* order of the specs, each of the shape of the query arguments.
C9_DerivsOnePerSpec ==
    (ArrayQuery("gradient") \/ ArrayQuery("_eval_and_grad")) =>
        /\ last.outcome = "return"
        /\ Len(last.deriv_out) = Len(last.deriv_in)
        /\ \A j \in 1..Len(last.deriv_out) :
              /\ last.deriv_out[j].shape = QueryShape
              /\ \A n \in 1..Len(last.deriv_out[j].data) :
                    last.deriv_out[j].data[n].diff = last.deriv_in[j]

\* C10: the extrapolation option of an instance is the table entry of its
\* mode; __call__ makes exactly one evaluator call, to eval_linear with that
\* option, and does not enter _derivs; gradient and _eval_and_grad make
\* exactly one evaluator call, to eval_spline through _derivs, with the
\* instance's mode string.
C10_SamePolicyBothPaths ==
    /\ inst # None => inst.extrap_options = extrap_opts[inst.extrap_mode]
    /\ last.op = "__call__" =>
          /\ Len(last.calls) = 1
          /\ last.calls[1].fn = "eval_linear"
          /\ last.calls[1].extrap = extrap_opts[inst.extrap_mode]
          /\ last.deriv_in = <<>>
    /\ last.op \in {"gradient", "_eval_and_grad"} =>
          /\ Len(last.calls) = 1
          /\ last.calls[1].fn = "eval_spline"
          /\ last.calls[1].extrap = inst.extrap_mode
          /\ last.calls[1].diff = last.deriv_in
          /\ last.deriv_in # <<>>

C10_Witness ==
    /\ last.op = "gradient"
    /\ last.outcome = "return"
    /\ inst.extrap_mode = "nearest"
    /\ last.calls[1].extrap = "nearest"
====
